---- MODULE Spec2Model ----
(***************************************************************************)
(* Model of dashboard.py: one run of the newsletter growth dashboard.      *)
(*                                                                         *)
(* Time is counted in half days, so that every calendar day has a midnight *)
(* (an even timestamp) and a midday (an odd one).  A data frame is a       *)
(* sequence of rows; a posts row carries the RangeIndex label read_csv     *)
(* gave it, which survives filtering and sorting.  An optional value is    *)
(* [some |-> FALSE] (Python's None) or [some |-> TRUE, val |-> v].         *)
(***************************************************************************)
EXTENDS Integers, Sequences, FiniteSets, TLC

\* ---- bounds of the model ----
MaxDay == 5      \* uploaded timestamps fall on calendar days 0 .. MaxDay
MaxSubs == 3     \* rows of the uploaded subscribers table
MaxLoad == 4     \* rows of the two uploaded tables together, a posts row
                 \* (two cells read: post_date, is_published) counted twice

\* ---- the program's constants, in half days ----
Day == 2         \* resample('D') / pd.Timedelta(days=1)
Periods == 3     \* pct_change(periods=3)
WindowDays == 3  \* window_start = peak_date - pd.Timedelta(days=3)
LookbackDays == 2 \* search_start = window_start - pd.Timedelta(days=2)

Timestamps == 0 .. ((MaxDay + 1) * Day - 1)

None == [some |-> FALSE]
Some(v) == [some |-> TRUE, val |-> v]

MissingCreatedAt == "Missing 'created_at' column in subscribers file."
MissingPostDate == "Missing 'post_date' column in posts file."
MissingFiles == "Could not find necessary CSV files"

\* ---- strings, as sequences of characters ----
UpperCase == <<"A","B","C","D","E","F","G","H","I","J","K","L","M",
               "N","O","P","Q","R","S","T","U","V","W","X","Y","Z">>
LowerCase == <<"a","b","c","d","e","f","g","h","i","j","k","l","m",
               "n","o","p","q","r","s","t","u","v","w","x","y","z">>

LowerChar(c) ==
    IF \E i \in DOMAIN UpperCase : UpperCase[i] = c
    THEN LowerCase[CHOOSE i \in DOMAIN UpperCase : UpperCase[i] = c]
    ELSE c

\* str.lower()
Lower(s) == [i \in DOMAIN s |-> LowerChar(s[i])]

\* A cell of the is_published column: a native boolean or a string.
BoolCell(b) == [kind |-> "bool", b |-> b, s |-> <<>>]
StrCell(s) == [kind |-> "str", b |-> FALSE, s |-> s]

\* astype(str): str(True) = "True", str(False) = "False", a string is itself
AsTypeStr(cell) ==
    IF cell.kind = "bool"
    THEN (IF cell.b THEN <<"T","r","u","e">> ELSE <<"F","a","l","s","e">>)
    ELSE cell.s

IsPublishedCells ==
    { BoolCell(TRUE), StrCell(<<"T","R","U","E">>), StrCell(<<"f","a","l","s","e">>) }

\* ---- the uploaded tables ----
SeqsUpTo(S, n) == UNION { [1..k -> S] : k \in 0..n }

SubscriberTables ==
    { [columns |-> {"email", "created_at"},
       rows |-> [i \in DOMAIN ts |-> [created_at |-> ts[i]]]] :
          ts \in SeqsUpTo(Timestamps, MaxSubs) }
    \cup
    { [columns |-> {"email"}, rows |-> [i \in 1..k |-> [email |-> "reader"]]] :
          k \in 0..MaxSubs }

\* the posts tables of at most n rows
PostTables(n) ==
    { [columns |-> {"title", "post_date", "is_published"},
       rows |-> [i \in DOMAIN cs |->
                   [index |-> i, post_date |-> cs[i][1], is_published |-> cs[i][2]]]] :
          cs \in SeqsUpTo(Timestamps \X IsPublishedCells, n) }
    \cup
    { [columns |-> {"title", "post_date"},
       rows |-> [i \in DOMAIN ts |-> [index |-> i, post_date |-> ts[i]]]] :
          ts \in SeqsUpTo(Timestamps, n) }
    \cup
    { [columns |-> {"title"}, rows |-> [i \in 1..k |-> [index |-> i]]] :
          k \in 0..n }

VARIABLES
    pc,               \* position of the script
    subs_raw,         \* load_data's subscribers_df (optional table)
    posts_raw,        \* load_data's posts_df (optional table)
    subs_df,          \* process_subscribers' result (optional frame)
    posts_df,         \* process_posts' result (optional frame)
    errors,           \* st.error messages shown
    total_subs,       \* the "Total Subscribers" metric (optional)
    daily_growth,     \* the daily series (optional frame)
    posts_integrated, \* the overlay's matches (optional frame)
    spike,            \* the spike window shown (optional)
    catalysts,        \* the catalyst search result (optional frame)
    not_enough        \* "Not enough data to calculate growth spikes." shown

vars == <<pc, subs_raw, posts_raw, subs_df, posts_df, errors, total_subs,
          daily_growth, posts_integrated, spike, catalysts, not_enough>>

Init ==
    /\ pc = "idle"
    /\ subs_raw = None
    /\ posts_raw = None
    /\ subs_df = None
    /\ posts_df = None
    /\ errors = {}
    /\ total_subs = None
    /\ daily_growth = None
    /\ posts_integrated = None
    /\ spike = None
    /\ catalysts = None
    /\ not_enough = FALSE

\* ---- helpers on frames ----
Min(S) == CHOOSE x \in S : \A y \in S : x <= y
Max(S) == CHOOSE x \in S : \A y \in S : x >= y

Column(df, name) == { df[i][name] : i \in DOMAIN df }

\* sort_values(key): the rows in ascending key order.  The default quicksort
\* is not stable, so rows with equal keys may come out in any order.
RECURSIVE Orderings(_, _, _)
Orderings(df, key, idx) ==
    IF idx = {} THEN { <<>> }
    ELSE LET least == Min({ df[i][key] : i \in idx })
         IN UNION { { <<df[i]>> \o rest : rest \in Orderings(df, key, idx \ {i}) } :
                      i \in { j \in idx : df[j][key] = least } }

SortValues(df, key) == Orderings(df, key, DOMAIN df)

\* ---- load_data ----
\* the posts rows that fit beside the subscribers table s within MaxLoad
PostsRoom(s) == (MaxLoad - (IF s.some THEN Len(s.val.rows) ELSE 0)) \div 2

Upload ==
    /\ pc = "idle"
    /\ \E s \in {None} \cup { Some(t) : t \in SubscriberTables } :
       \E p \in {None} \cup { Some(t) : t \in PostTables(PostsRoom(s)) } :
          /\ subs_raw' = s
          /\ posts_raw' = p
    /\ pc' = "loaded"
    /\ UNCHANGED <<subs_df, posts_df, errors, total_subs, daily_growth,
                   posts_integrated, spike, catalysts, not_enough>>

\* the else branch of "if posts_raw is not None and subs_raw is not None"
MissingFilesError ==
    /\ pc = "loaded"
    /\ ~(posts_raw.some /\ subs_raw.some)
    /\ errors' = errors \cup {MissingFiles}
    /\ pc' = "done"
    /\ UNCHANGED <<subs_raw, posts_raw, subs_df, posts_df, total_subs, daily_growth,
                   posts_integrated, spike, catalysts, not_enough>>

\* ---- process_subscribers ----
\* the possible results [df, errors] of process_subscribers(df)
process_subscribers(df) ==
    IF ~df.some THEN { [df |-> None, errors |-> {}] }
    ELSE IF "created_at" \notin df.val.columns
    THEN { [df |-> None, errors |-> {MissingCreatedAt}] }
    ELSE { [df |-> Some([i \in DOMAIN sorted |->
                           [created_at |-> sorted[i].created_at,
                            total_subscribers |-> i]]),
            errors |-> {}] : sorted \in SortValues(df.val.rows, "created_at") }

\* ---- process_posts ----
\* df['is_published'].astype(str).str.lower() == 'true'
IsPublished(cell) == Lower(AsTypeStr(cell)) = <<"t","r","u","e">>

\* (mutant: the mask is computed but never applied)
PublishedRowsUnmasked(rows) ==
    [i \in DOMAIN rows |->
       [index |-> rows[i].index, post_date |-> rows[i].post_date,
        is_published |-> IsPublished(rows[i].is_published)]]

\* the is_published column replaced by the parsed boolean, then df[mask]
PublishedRows(rows) ==
    LET parsed == [i \in DOMAIN rows |->
                     [index |-> rows[i].index, post_date |-> rows[i].post_date,
                      is_published |-> IsPublished(rows[i].is_published)]]
        Keep(r) == r.is_published = TRUE
    IN SelectSeq(parsed, Keep)

\* (mutant: a missing post_date column goes unreported)
process_posts_silent(df) ==
    IF ~df.some THEN { [df |-> None, errors |-> {}] }
    ELSE IF "post_date" \notin df.val.columns
    THEN { [df |-> None, errors |-> {}] }
    ELSE LET kept == IF "is_published" \in df.val.columns
                     THEN PublishedRows(df.val.rows)
                     ELSE df.val.rows
         IN { [df |-> Some(sorted), errors |-> {}] :
                sorted \in SortValues(kept, "post_date") }

\* the possible results [df, errors] of process_posts(df)
process_posts(df) ==
    IF ~df.some THEN { [df |-> None, errors |-> {}] }
    ELSE IF "post_date" \notin df.val.columns
    THEN { [df |-> None, errors |-> {MissingPostDate}] }
    ELSE LET kept == IF "is_published" \in df.val.columns
                     THEN PublishedRows(df.val.rows)
                     ELSE df.val.rows
         IN { [df |-> Some(sorted), errors |-> {}] :
                sorted \in SortValues(kept, "post_date") }

\* "# Process Data": both tables are processed whenever both were found
ProcessData ==
    /\ pc = "loaded"
    /\ posts_raw.some /\ subs_raw.some
    /\ \E rs \in process_subscribers(subs_raw), rp \in process_posts(posts_raw) :
          /\ subs_df' = rs.df
          /\ posts_df' = rp.df
          /\ errors' = errors \cup rs.errors \cup rp.errors
    /\ pc' = "processed"
    /\ UNCHANGED <<subs_raw, posts_raw, total_subs, daily_growth,
                   posts_integrated, spike, catalysts, not_enough>>

\* "if subs_df is not None" is false: nothing more is shown
NoDashboard ==
    /\ pc = "processed"
    /\ ~subs_df.some
    /\ pc' = "done"
    /\ UNCHANGED <<subs_raw, posts_raw, subs_df, posts_df, errors, total_subs,
                   daily_growth, posts_integrated, spike, catalysts, not_enough>>

\* ---- the daily series ----
\* midnight of the calendar day of t
Floor(t) == t - (t % Day)

\* (mutant: the day of the latest row is left out)
ResampleSizeOpenEnd(df) ==
    IF df = <<>> THEN <<>>
    ELSE LET first == Floor(Min(Column(df, "created_at")))
             last == Floor(Max(Column(df, "created_at")))
         IN [i \in 1 .. ((last - first) \div Day) |->
               [created_at |-> first + (i - 1) * Day,
                size |-> Cardinality({ j \in DOMAIN df :
                            Floor(df[j].created_at) = first + (i - 1) * Day })]]

\* resample('D').size(): one bin for every calendar day from the day of the
\* earliest row to the day of the latest, holding the number of rows of that day
ResampleSize(df) ==
    IF df = <<>> THEN <<>>
    ELSE LET first == Floor(Min(Column(df, "created_at")))
             last == Floor(Max(Column(df, "created_at")))
         IN [i \in 1 .. ((last - first) \div Day + 1) |->
               [created_at |-> first + (i - 1) * Day,
                size |-> Cardinality({ j \in DOMAIN df :
                            Floor(df[j].created_at) = first + (i - 1) * Day })]]

\* cumsum(): the running total of the first i bins
\* (mutants: the plain bin sizes; the running total of the bins before i)
CumSumForgotten(bins, i) == bins[i].size

RECURSIVE CumSumExclusive(_, _)
CumSumExclusive(bins, i) ==
    IF i <= 1 THEN 0 ELSE CumSumExclusive(bins, i - 1) + bins[i - 1].size

RECURSIVE CumSum(_, _)
CumSum(bins, i) == IF i = 0 THEN 0 ELSE CumSum(bins, i - 1) + bins[i].size

DailyGrowth(df) ==
    LET bins == ResampleSize(df)
    IN [i \in DOMAIN bins |->
          [created_at |-> bins[i].created_at, total_subscribers |-> CumSum(bins, i)]]

\* "# --- Metrics ---"
Metrics ==
    /\ pc = "processed"
    /\ subs_df.some
    /\ total_subs' = Some(Len(subs_df.val))
    /\ pc' = "metrics"
    /\ UNCHANGED <<subs_raw, posts_raw, subs_df, posts_df, errors, daily_growth,
                   posts_integrated, spike, catalysts, not_enough>>

\* ---- the catalyst overlay ----
\* (mutant: no span filter)
RelevantPostsUnfiltered(posts, growth) == posts

\* posts between the first and the last date of the series; on an empty
\* series min() and max() are NaT and every comparison is False
RelevantPosts(posts, growth) ==
    LET InSpan(r) == /\ growth # <<>>
                     /\ r.post_date >= Min(Column(growth, "created_at"))
                     /\ r.post_date <= Max(Column(growth, "created_at"))
    IN SelectSeq(posts, InSpan)

\* (mutant: the later row wins when equally near)
NearestLater(t, right) ==
    LET before == { j \in DOMAIN right : right[j].created_at <= t }
        after == { j \in DOMAIN right : right[j].created_at >= t }
    IN IF before # {} /\ after # {}
       THEN (IF t - right[Max(before)].created_at < right[Min(after)].created_at - t
             THEN Max(before) ELSE Min(after))
       ELSE IF before # {} THEN Max(before)
       ELSE IF after # {} THEN Min(after)
       ELSE 0

\* merge_asof(direction='nearest'): the last right row at or before t and the
\* first at or after t; the nearer wins, the earlier one when equally near
Nearest(t, right) ==
    LET before == { j \in DOMAIN right : right[j].created_at <= t }
        after == { j \in DOMAIN right : right[j].created_at >= t }
    IN IF before # {} /\ after # {}
       THEN (IF t - right[Max(before)].created_at <= right[Min(after)].created_at - t
             THEN Max(before) ELSE Min(after))
       ELSE IF before # {} THEN Max(before)
       ELSE IF after # {} THEN Min(after)
       ELSE 0

NaT == 0 - 1

MergeAsof(left, right) ==
    [i \in DOMAIN left |->
       LET j == Nearest(left[i].post_date, right)
       IN [index |-> left[i].index,
           post_date |-> left[i].post_date,
           created_at |-> IF j = 0 THEN NaT ELSE right[j].created_at,
           total_subscribers |-> IF j = 0 THEN NaT ELSE right[j].total_subscribers]]

\* "# --- Growth Chart ---": the daily series, then the catalyst overlay
GrowthChart ==
    /\ pc = "metrics"
    /\ LET growth == DailyGrowth(subs_df.val)
       IN IF posts_df.some /\ posts_df.val # <<>>
             /\ RelevantPosts(posts_df.val, growth) # <<>>
          THEN \E left \in SortValues(RelevantPosts(posts_df.val, growth), "post_date"),
                  right \in SortValues(growth, "created_at") :
                  /\ daily_growth' = Some(right)
                  /\ posts_integrated' = Some(MergeAsof(left, right))
          ELSE /\ daily_growth' = Some(growth)
               /\ UNCHANGED posts_integrated
    /\ pc' = "chart"
    /\ UNCHANGED <<subs_raw, posts_raw, subs_df, posts_df, errors, total_subs,
                   spike, catalysts, not_enough>>

\* ---- spike analysis ----
\* A float of the pct_change column: NaN, or num/den with num, den >= 0
\* (den = 0 < num is +inf).
NaN == [nan |-> TRUE, num |-> 0, den |-> 0]
Ratio(n, d) == IF n = 0 /\ d = 0 THEN NaN ELSE [nan |-> FALSE, num |-> n, den |-> d]

Less(a, b) == a.num * b.den < b.num * a.den

\* (mutant: one period too many)
PctChangeLonger(growth) ==
    [i \in DOMAIN growth |->
       IF i <= Periods + 1 THEN NaN
       ELSE Ratio(growth[i].total_subscribers
                    - growth[i - Periods - 1].total_subscribers,
                  growth[i - Periods - 1].total_subscribers)]

\* pct_change(periods=3): total[i] / total[i-3] - 1, NaN on the first 3 rows
PctChange(growth) ==
    [i \in DOMAIN growth |->
       IF i <= Periods THEN NaN
       ELSE Ratio(growth[i].total_subscribers - growth[i - Periods].total_subscribers,
                  growth[i - Periods].total_subscribers)]

\* isna().all()
AllNaN(col) == \A i \in DOMAIN col : col[i].nan

\* (mutant: a later row replaces the best so far when greater or equal)
RECURSIVE ArgMaxLast(_, _, _)
ArgMaxLast(col, i, best) ==
    IF i > Len(col) THEN best
    ELSE IF col[i].nan THEN ArgMaxLast(col, i + 1, best)
    ELSE IF best = 0 \/ ~Less(col[i], col[best]) THEN ArgMaxLast(col, i + 1, i)
    ELSE ArgMaxLast(col, i + 1, best)

\* idxmax(): scan left to right, NaN skipped, a later row replaces the best
\* so far only when strictly greater
RECURSIVE ArgMax(_, _, _)
ArgMax(col, i, best) ==
    IF i > Len(col) THEN best
    ELSE IF col[i].nan THEN ArgMax(col, i + 1, best)
    ELSE IF best = 0 \/ Less(col[best], col[i]) THEN ArgMax(col, i + 1, i)
    ELSE ArgMax(col, i + 1, best)

\* the RangeIndex label (0-based) of the first maximum
IdxMax(col) == ArgMax(col, 1, 0) - 1

\* df.loc[label] on a RangeIndex
Loc(df, label) == df[label + 1]

\* posts_df[(post_date >= search_start) & (post_date <= search_end)]
CatalystSearch(posts, search_start, search_end) ==
    LET InWindow(r) == r.post_date >= search_start /\ r.post_date <= search_end
    IN SelectSeq(posts, InWindow)

\* "# --- Spike Analysis ---"
SpikeAnalysis ==
    /\ pc = "chart"
    /\ LET pct == PctChange(daily_growth.val)
           withPct == [i \in DOMAIN pct |->
                         [created_at |-> daily_growth.val[i].created_at,
                          total_subscribers |-> daily_growth.val[i].total_subscribers,
                          pct_change_3d |-> pct[i]]]
       IN /\ daily_growth' = Some(withPct)
          /\ IF ~AllNaN(pct)
             THEN LET max_idx == IdxMax(pct)
                      peak_date == Loc(withPct, max_idx).created_at
                      window_start == peak_date - WindowDays * Day
                      search_end == peak_date
                      search_start == window_start - LookbackDays * Day
                  IN /\ spike' = Some([max_idx |-> max_idx,
                                       max_val |-> Loc(withPct, max_idx).pct_change_3d,
                                       window_start |-> window_start,
                                       peak_date |-> peak_date])
                     /\ catalysts' = IF posts_df.some
                                     THEN Some(CatalystSearch(posts_df.val,
                                                              search_start, search_end))
                                     ELSE None
                     /\ UNCHANGED not_enough
             ELSE /\ not_enough' = TRUE
                  /\ UNCHANGED <<spike, catalysts>>
    /\ pc' = "done"
    /\ UNCHANGED <<subs_raw, posts_raw, subs_df, posts_df, errors, total_subs,
                   posts_integrated>>

Next ==
    \/ Upload
    \/ MissingFilesError
    \/ ProcessData
    \/ NoDashboard
    \/ Metrics
    \/ GrowthChart
    \/ SpikeAnalysis

Spec == Init /\ [][Next]_vars

\* ======================= properties =======================
\* the calendar day of a timestamp, and distances in time
DayOf(t) == t \div Day
Abs(x) == IF x < 0 THEN 0 - x ELSE x

\* the uploaded subscriber timestamps (when the column is there)
HasCreatedAt == subs_raw.some /\ "created_at" \in subs_raw.val.columns
HasPostDate == posts_raw.some /\ "post_date" \in posts_raw.val.columns
HasIsPublished == posts_raw.some /\ "is_published" \in posts_raw.val.columns
JoinTimes == { subs_raw.val.rows[i].created_at : i \in DOMAIN subs_raw.val.rows }
JoinsOn(d) == { i \in DOMAIN subs_raw.val.rows :
                  DayOf(subs_raw.val.rows[i].created_at) = d }
Total(i) == daily_growth.val[i].total_subscribers
Date(i) == daily_growth.val[i].created_at
Indexes(df) == { df[i].index : i \in DOMAIN df }

\* C1: the daily cumulative series never decreases from one day to the next,
\* and its last value is the number of subscriber events uploaded.
C1_CumulativeNonDecreasing ==
    daily_growth.some =>
        /\ \A i \in 1 .. Len(daily_growth.val) - 1 : Total(i) <= Total(i + 1)
        /\ Len(daily_growth.val) > 0 =>
             Total(Len(daily_growth.val)) = Len(subs_raw.val.rows)

\* C1 witness: three events uploaded out of order, two of them on one day,
\* over a series of several days.
C1_Witness ==
    /\ daily_growth.some
    /\ Len(daily_growth.val) >= 3
    /\ Len(subs_raw.val.rows) = 3
    /\ \E i \in 1 .. 2 :
          subs_raw.val.rows[i].created_at > subs_raw.val.rows[i + 1].created_at
    /\ \E d \in 0 .. MaxDay : Cardinality(JoinsOn(d)) = 2

\* C2: for a non-empty upload the series has one point for each calendar day
\* from the day of the earliest event to the day of the latest, and a day
\* without events repeats the previous day's cumulative value.
C2_DenseDailySeries ==
    (daily_growth.some /\ subs_raw.val.rows # <<>>) =>
        LET first == DayOf(Min(JoinTimes))
            last == DayOf(Max(JoinTimes))
        IN /\ Len(daily_growth.val) = (last - first) + 1
           /\ \A i \in DOMAIN daily_growth.val :
                 /\ Date(i) = (first + i - 1) * Day
                 /\ (i > 1 /\ JoinsOn(first + i - 1) = {}) => Total(i) = Total(i - 1)

\* C2 witness: a series with a day on which nobody joined.
C2_Witness ==
    /\ daily_growth.some
    /\ Len(daily_growth.val) >= 3
    /\ \E i \in 2 .. Len(daily_growth.val) - 1 :
          JoinsOn(DayOf(Date(i))) = {} /\ Total(i) = Total(i - 1)

\* C4: on a series of at least 4 days the spike is the day of index >= 3
\* with the largest (total[i] - total[i-3]) / total[i-3], the lowest index
\* among equals; window_end is that day and window_start three days before;
\* the series [1,1,1,4] gives index 3 and ratio 3.
C4_SpikeIsFirstMaximum ==
    (pc = "done" /\ daily_growth.some /\ Len(daily_growth.val) >= 4) =>
        /\ spike.some
        /\ LET k == spike.val.max_idx + 1
               n == Len(daily_growth.val)
               Gain(i) == Total(i) - Total(i - 3)
           IN /\ k \in 4 .. n
              /\ \A j \in 4 .. n : Gain(j) * Total(k - 3) <= Gain(k) * Total(j - 3)
              /\ \A j \in 4 .. k - 1 : Gain(j) * Total(k - 3) < Gain(k) * Total(j - 3)
              /\ spike.val.peak_date = Date(k)
              /\ spike.val.window_start = Date(k) - 3 * Day
              /\ ~spike.val.max_val.nan
              /\ spike.val.max_val.num * Total(k - 3) = Gain(k) * spike.val.max_val.den
              /\ spike.val.max_val.den > 0
              /\ (n = 4 /\ Total(1) = 1 /\ Total(2) = 1 /\ Total(3) = 1 /\ Total(4) = 4) =>
                    /\ spike.val.max_idx = 3
                    /\ spike.val.max_val.num = 3 * spike.val.max_val.den

\* C4 witness: two days share the largest ratio and the earlier one is chosen.
C4_Witness ==
    /\ pc = "done"
    /\ spike.some
    /\ \E j \in spike.val.max_idx + 2 .. Len(daily_growth.val) :
          (Total(j) - Total(j - 3)) * Total(spike.val.max_idx - 2)
             = (Total(spike.val.max_idx + 1) - Total(spike.val.max_idx - 2)) * Total(j - 3)
    /\ Total(spike.val.max_idx + 1) > Total(spike.val.max_idx - 2)

C6_MatchesOnlyWithinSpan ==
    (pc \in {"chart", "done"} /\ daily_growth.some) =>
        LET InSpan(t) == /\ daily_growth.val # <<>>
                         /\ Date(1) <= t
                         /\ t <= Date(Len(daily_growth.val))
        IN /\ posts_integrated.some =>
                \A m \in DOMAIN posts_integrated.val :
                    InSpan(posts_integrated.val[m].post_date)
           /\ posts_df.some =>
                \A i \in DOMAIN posts_df.val :
                    InSpan(posts_df.val[i].post_date) =>
                        /\ posts_integrated.some
                        /\ Cardinality({ m \in DOMAIN posts_integrated.val :
                              posts_integrated.val[m].index = posts_df.val[i].index }) = 1

\* C6 witness: a published post later on the last day of the series than the
\* series' last date is dropped.
C6_Witness ==
    /\ pc = "chart"
    /\ Len(daily_growth.val) >= 2
    /\ posts_df.some
    /\ \E i \in DOMAIN posts_df.val :
          /\ posts_df.val[i].post_date > Date(Len(daily_growth.val))
          /\ DayOf(posts_df.val[i].post_date) = DayOf(Date(Len(daily_growth.val)))
    /\ ~posts_integrated.some

\* C7: a series of fewer than 4 days, or one without a defined ratio, ends
\* the spike stage with "not enough data", no spike window and no catalyst
\* search; every other series gets a spike window.
C7_NotEnoughData ==
    (pc = "done" /\ daily_growth.some) =>
        IF \/ Len(daily_growth.val) < 4
           \/ ~\E i \in 4 .. Len(daily_growth.val) : Total(i - 3) # 0
        THEN not_enough /\ ~spike.some /\ ~catalysts.some
        ELSE spike.some /\ ~not_enough

\* C7 witness: a series of one to three days ends with "not enough data".
C7_Witness ==
    /\ pc = "done"
    /\ daily_growth.some
    /\ Len(daily_growth.val) \in 1 .. 3
    /\ not_enough

\* C10: the first day's cumulative value is at least 1, every index >= 3
\* has a finite non-negative ratio over a non-zero denominator, and "not
\* enough data" is shown exactly when the series has fewer than 4 days.
C10_DenominatorNeverZero ==
    /\ (daily_growth.some /\ daily_growth.val # <<>>) =>
          /\ Total(1) >= 1
          /\ \A i \in 4 .. Len(daily_growth.val) : Total(i - 3) # 0
    /\ (pc = "done" /\ daily_growth.some) =>
          /\ \A i \in 4 .. Len(daily_growth.val) :
                /\ ~daily_growth.val[i].pct_change_3d.nan
                /\ daily_growth.val[i].pct_change_3d.den > 0
                /\ daily_growth.val[i].pct_change_3d.num >= 0
          /\ not_enough <=> Len(daily_growth.val) < 4

\* C10 witness: a spike found on a series whose first event is at midday.
C10_Witness ==
    /\ pc = "done"
    /\ spike.some
    /\ Len(daily_growth.val) >= 5
    /\ Min(JoinTimes) % Day # 0

\* C3: the catalyst search returns exactly the published posts of the
\* calendar days from two days before window_start through the peak day, in
\* ascending publish order.
C3_SearchCoversWholeDays ==
    (pc = "done" /\ spike.some /\ posts_df.some) =>
        /\ catalysts.some
        /\ Indexes(catalysts.val) =
              { posts_df.val[i].index : i \in
                  { j \in DOMAIN posts_df.val :
                      /\ DayOf(posts_df.val[j].post_date)
                            >= DayOf(spike.val.window_start) - 2
                      /\ DayOf(posts_df.val[j].post_date)
                            <= DayOf(spike.val.peak_date) } }
        /\ \A i \in 1 .. Len(catalysts.val) - 1 :
              catalysts.val[i].post_date <= catalysts.val[i + 1].post_date

\* C8: a missing created_at or a missing post_date column yields a
\* missing-column message and no metric, series, match or spike window.
C8_SchemaFailureAbortsRun ==
    (pc = "done" /\ subs_raw.some /\ posts_raw.some
       /\ (~HasCreatedAt \/ ~HasPostDate)) =>
        /\ (MissingCreatedAt \in errors \/ MissingPostDate \in errors)
        /\ ~total_subs.some
        /\ ~daily_growth.some
        /\ ~posts_integrated.some
        /\ ~spike.some

\* C8 as amended: a missing created_at column yields its message and no
\* metric, series, match, spike window or catalyst search; a missing
\* post_date column yields its message, no match and no catalyst search,
\* while the metric and the series are still produced from the subscribers.
C8_SubscriberSchemaAborts ==
    (pc = "done" /\ subs_raw.some /\ posts_raw.some) =>
        /\ ~HasCreatedAt =>
              /\ MissingCreatedAt \in errors
              /\ ~total_subs.some
              /\ ~daily_growth.some
              /\ ~posts_integrated.some
              /\ ~spike.some
              /\ ~catalysts.some
              /\ ~not_enough
        /\ ~HasPostDate =>
              /\ MissingPostDate \in errors
              /\ ~posts_integrated.some
              /\ ~catalysts.some
        /\ (~HasPostDate /\ HasCreatedAt) =>
              /\ total_subs.some
              /\ total_subs.val = Len(subs_raw.val.rows)
              /\ daily_growth.some

\* C8 witness: the posts table lacks post_date and a spike window is shown.
C8_Witness ==
    /\ pc = "done"
    /\ posts_raw.some
    /\ ~HasPostDate
    /\ MissingPostDate \in errors
    /\ spike.some

\* C9: a post whose is_published, as a lowercased string, is not "true" is
\* in no match and in no catalyst result; without an is_published column
\* every row is kept, matched when within the series' span and returned when
\* within the search window.
C9_UnpublishedExcluded ==
    HasPostDate =>
        LET raw == posts_raw.val.rows
        IN IF HasIsPublished
           THEN \A i \in DOMAIN raw :
                   Lower(AsTypeStr(raw[i].is_published)) # <<"t","r","u","e">> =>
                       /\ posts_df.some => raw[i].index \notin Indexes(posts_df.val)
                       /\ posts_integrated.some =>
                             raw[i].index \notin Indexes(posts_integrated.val)
                       /\ catalysts.some => raw[i].index \notin Indexes(catalysts.val)
           ELSE /\ posts_df.some => Indexes(posts_df.val) = Indexes(raw)
                /\ (daily_growth.some /\ daily_growth.val # <<>>) =>
                      \A i \in DOMAIN raw :
                          (Date(1) <= raw[i].post_date
                             /\ raw[i].post_date <= Date(Len(daily_growth.val))) =>
                                /\ posts_integrated.some
                                /\ raw[i].index \in Indexes(posts_integrated.val)
                /\ (pc = "done" /\ spike.some) =>
                      \A i \in DOMAIN raw :
                          (spike.val.window_start - 2 * Day <= raw[i].post_date
                             /\ raw[i].post_date <= spike.val.peak_date) =>
                                raw[i].index \in Indexes(catalysts.val)

\* C9 witness: an unpublished post inside both the series' span and the
\* search window of a spike, with nothing matched or returned.
C9_Witness ==
    /\ pc = "done"
    /\ spike.some
    /\ HasPostDate /\ HasIsPublished
    /\ \E i \in DOMAIN posts_raw.val.rows :
          /\ Lower(AsTypeStr(posts_raw.val.rows[i].is_published)) # <<"t","r","u","e">>
          /\ Date(1) <= posts_raw.val.rows[i].post_date
          /\ posts_raw.val.rows[i].post_date <= spike.val.peak_date
    /\ catalysts.some /\ catalysts.val = <<>>
    /\ ~posts_integrated.some
====
